---- MODULE Spec2Model ----
(***************************************************************************)
(* A model of the drought pipeline's spatial windowing                     *)
(* (MantleModisExporter.window_from_extent / chop_roi), grid regridding    *)
(* (BasePreProcessor.regrid), temporal resampling                          *)
(* (BasePreProcessor.resample_time), skill scores (create_skill_score),    *)
(* the SHAP plot's month labels (plot_shap_values) and the exporters       *)
(* (MantleModisExporter, CDSExporter, ERA5Exporter).                       *)
(*                                                                         *)
(* Geographic coordinates are integers in a fixed unit; a pixel is several *)
(* units wide, so that a box corner falls strictly inside a pixel.  The    *)
(* inverse affine transform is computed exactly, as a fraction num/den;    *)
(* floating-point rounding of the libraries is not modelled.               *)
(***************************************************************************)
EXTENDS Integers, Sequences, FiniteSets, TLC

VARIABLES
    tifs,       \* the .tif files on disk: file name -> tile
    region,     \* region_lookup[subset_str]: the requested Region
    chopLog,    \* history: one record per chop_roi call, in call order
    interim,    \* the weights files in the interim folder: a set of file names
    built,      \* history: the file names regridders were built with so far
    rg,         \* history: <<the record of the last regrid call>>, or <<>>
    nCalls,     \* the number of regrid calls made
    rs,         \* history: <<the record of the last resample_time call>>, or <<>>
    ss,         \* history: <<the record of the last create_skill_score call>>, or <<>>
    shap,       \* history: <<the record of the last plot_shap_values call>>, or <<>>
    raw_folder, \* the CDS exporter's raw folder: file name -> the request retrieved
    cdsLog,     \* history: one record per CDSExporter._export call, in call order
    era5,       \* history: <<the record of the last ERA5Exporter.export call>>, or <<>>
    disk,       \* the files under the MODIS exporter's output folder: path -> content
    modis,      \* the position and the local variables of MantleModisExporter.export
    exLog,      \* history: one record per step of the MODIS export, in order
    deleted     \* history: the .tif paths preprocess_tif_to_nc has deleted

chopVars == <<tifs, region, chopLog>>

regridVars == <<interim, built, rg, nCalls>>

scriptVars == <<ss, shap>>

cdsVars == <<raw_folder, cdsLog, era5>>

modisVars == <<disk, modis, exLog, deleted>>

exporterVars == <<cdsVars, modisVars>>

vars == <<chopVars, regridVars, rs, scriptVars, exporterVars>>

\* no call of the analysis scripts was made
ScriptsIdle == ss = <<>> /\ shap = <<>>

\* no call of the exporters was made
ExportersIdle ==
    /\ raw_folder = <<>> /\ cdsLog = <<>> /\ era5 = <<>>
    /\ disk = <<>> /\ modis = [phase |-> "idle"] /\ exLog = <<>> /\ deleted = {}

----------------------------------------------------------------------------
(* Bounds of the model.                                                    *)

\* geographic coordinates of a region's edges range over 0..MaxCoord
MaxCoord == 8
\* the number of chop_roi calls in one behaviour
MaxChops == 2
\* the number of regrid calls in one behaviour
MaxCalls == 2
\* the number of time steps of the input given to plot_shap_values
MaxSteps == 13
\* the number of CDSExporter._export calls in one behaviour
MaxExports == 2
\* metric values of the skill scores range over -MaxMetric..MaxMetric
MaxMetric == 1
\* the number of time samples of a series given to resample_time
MaxSamples == 3

----------------------------------------------------------------------------
(* Exact arithmetic on fractions num/den, den # 0.                         *)

Abs(n) == IF n < 0 THEN -n ELSE n

Sgn(n) == IF n < 0 THEN -1 ELSE 1

Min(m, n) == IF m <= n THEN m ELSE n

Max(m, n) == IF m >= n THEN m ELSE n

\* floor of num/den
Floor(num, den) == (num * Sgn(den)) \div Abs(den)

\* ceiling of num/den
Ceil(num, den) == -Floor(-num, den)

\* Python's int() of a float: truncation toward zero
IntOf(num, den) ==
    IF num * Sgn(den) >= 0 THEN Floor(num, den) ELSE Ceil(num, den)

----------------------------------------------------------------------------
(* Affine transforms: (x, y) = (a*col + b*row + c, d*col + e*row + f).     *)

Affine(a, b, c, d, e, f) == [a |-> a, b |-> b, c |-> c, d |-> d, e |-> e, f |-> f]

\* aff * (col, row)
AffMul(aff, col, row) ==
    [x |-> aff.a * col + aff.b * row + aff.c,
     y |-> aff.d * col + aff.e * row + aff.f]

\* ~aff * (x, y): the pixel coordinates of (x, y), each a fraction over the
\* determinant of aff
AffInvMul(aff, x, y) ==
    LET det == aff.a * aff.e - aff.b * aff.d
    IN  [col |-> [num |-> aff.e * (x - aff.c) - aff.b * (y - aff.f), den |-> det],
         row |-> [num |-> aff.a * (y - aff.f) - aff.d * (x - aff.c), den |-> det]]

----------------------------------------------------------------------------
(* Raster tiles and regions.                                               *)

\* a band of the given shape whose pixel (r, c) holds value(r, c)
Band(height, width, value(_, _)) ==
    [height |-> height, width |-> width,
     data |-> [r \in 0..(height - 1) |-> [c \in 0..(width - 1) |-> value(r, c)]]]

\* the pixels of a downloaded tile: all different, none the fill value 0
SrcPixel(width, r, c) == r * width + c + 1

\* north-up transforms: pixels of 2 x 3 and of 3 x 2 units, upper-left
\* corner of the raster at (3, 6)
Transforms == {Affine(2, 0, 3, 0, -3, 6), Affine(3, 0, 3, 0, -2, 6)}

Shapes == {<<2, 2>>, <<3, 2>>}

Tile(transform, band) ==
    [transform |-> transform, height |-> band.height, width |-> band.width,
     data |-> band.data]

Tiles ==
    {Tile(t, Band(s[1], s[2], LAMBDA r, c : SrcPixel(s[2], r, c))) :
        t \in Transforms, s \in Shapes}

\* Region(name, lonmin, lonmax, latmin, latmax), latmin < latmax, lonmin < lonmax
Regions ==
    {[latmin |-> y[1], latmax |-> y[2], lonmin |-> x[1], lonmax |-> x[2]] :
        x \in {p \in (0..MaxCoord) \X (0..MaxCoord) : p[1] < p[2]},
        y \in {p \in (0..MaxCoord) \X (0..MaxCoord) : p[1] < p[2]}}

----------------------------------------------------------------------------
(* MantleModisExporter.window_from_extent                                  *)

\* a variant that applies aff where ~aff is meant
window_from_extent_forward(xmin, xmax, ymin, ymax, aff) ==
    LET ul == AffMul(aff, xmin, ymax)
        lr == AffMul(aff, xmax, ymin)
    IN  [row_start |-> ul.y, row_stop |-> lr.y,
         col_start |-> ul.x, col_stop |-> lr.x]

\* a variant that takes the rows of the corners in the other order
window_from_extent_ymin_first(xmin, xmax, ymin, ymax, aff) ==
    LET ll == AffInvMul(aff, xmin, ymin)
        ur == AffInvMul(aff, xmax, ymax)
    IN  [row_start |-> IntOf(ll.row.num, ll.row.den),
         row_stop  |-> IntOf(ur.row.num, ur.row.den),
         col_start |-> IntOf(ll.col.num, ll.col.den),
         col_stop  |-> IntOf(ur.col.num, ur.col.den)]

\* a variant that rounds to the nearest integer where int() is meant
window_from_extent_round(xmin, xmax, ymin, ymax, aff) ==
    LET ul == AffInvMul(aff, xmin, ymax)
        lr == AffInvMul(aff, xmax, ymin)
        Round(q) == Floor(2 * q.num + q.den, 2 * q.den)
    IN  [row_start |-> Round(ul.row), row_stop |-> Round(lr.row),
         col_start |-> Round(ul.col), col_stop |-> Round(lr.col)]

window_from_extent(xmin, xmax, ymin, ymax, aff) ==
    LET ul == AffInvMul(aff, xmin, ymax)
        lr == AffInvMul(aff, xmax, ymin)
    IN  [row_start |-> IntOf(ul.row.num, ul.row.den),
         row_stop  |-> IntOf(lr.row.num, lr.row.den),
         col_start |-> IntOf(ul.col.num, ul.col.den),
         col_stop  |-> IntOf(lr.col.num, lr.col.den)]

----------------------------------------------------------------------------
(* The rasterio calls of chop_roi.                                         *)

\* rasterio.windows.bounds(window, transform): (left, bottom, right, top) of
\* the window ((row_start, row_stop), (col_start, col_stop))
bounds(window, transform) ==
    LET row_min == window.row_start
        row_max == row_min + Max(window.row_stop - window.row_start, 0)
        col_min == window.col_start
        col_max == col_min + Max(window.col_stop - window.col_start, 0)
        lb == AffMul(transform, col_min, row_max)
        rt == AffMul(transform, col_max, row_min)
    IN  [left |-> lb.x, bottom |-> lb.y, right |-> rt.x, top |-> rt.y]

\* src.window_transform(window): the transform moved to the window's origin
window_transform(window, transform) ==
    LET o == AffMul(transform, window.col_start, window.row_start)
    IN  Affine(transform.a, transform.b, o.x, transform.d, transform.e, o.y)

\* rasterio.windows.from_bounds(left, bottom, right, top, transform): the
\* window of fractional offsets and lengths that covers the bounds
from_bounds(b, transform) ==
    LET ul == AffInvMul(transform, b.left, b.top)
        lr == AffInvMul(transform, b.right, b.bottom)
    IN  [col_off |-> ul.col, row_off |-> ul.row,
         width  |-> [num |-> Max((lr.col.num - ul.col.num) * Sgn(ul.col.den), 0),
                     den |-> Abs(ul.col.den)],
         height |-> [num |-> Max((lr.row.num - ul.row.num) * Sgn(ul.row.den), 0),
                     den |-> Abs(ul.row.den)]]

\* Window.round_shape(): lengths rounded up
round_shape(w) ==
    [w EXCEPT !.width = [num |-> Ceil(w.width.num, w.width.den), den |-> 1],
              !.height = [num |-> Ceil(w.height.num, w.height.den), den |-> 1]]

\* Window.round_offsets(): offsets rounded down
round_offsets(w) ==
    [w EXCEPT !.col_off = [num |-> Floor(w.col_off.num, w.col_off.den), den |-> 1],
              !.row_off = [num |-> Floor(w.row_off.num, w.row_off.den), den |-> 1]]

\* the integer window after round_shape().round_offsets()
IntWindow(w) ==
    [col_off |-> w.col_off.num, row_off |-> w.row_off.num,
     width |-> w.width.num, height |-> w.height.num]

\* whether the window lies within the raster's rows and columns
WindowInRaster(window, src) ==
    /\ 0 <= window.row_start /\ 0 <= window.row_stop
    /\ window.row_start <= src.height /\ window.row_stop <= src.height
    /\ 0 <= window.col_start /\ 0 <= window.col_stop
    /\ window.col_start <= src.width /\ window.col_stop <= src.width

\* a variant that reads the block of the window's shape at the raster's origin
read_origin(src, window, lib) ==
    IF ~WindowInRaster(window, src)
    THEN <<>>
    ELSE <<Band(Max(window.row_stop - window.row_start, 0),
                Max(window.col_stop - window.col_start, 0),
                LAMBDA r, c : src.data[r][c])>>

\* src.read(1, window=window).  A window within the raster yields its pixels.
\* For a window that leaves the raster the outcome is rasterio's: the read
\* raises (lib = "raise"), or it is cut to the raster and a smaller array
\* comes back (lib = "clip").  The result is <<array>>, or <<>> for a raise.
read(src, window, lib) ==
    LET r0 == Min(Max(window.row_start, 0), src.height)
        r1 == Min(Max(window.row_stop, 0), src.height)
        c0 == Min(Max(window.col_start, 0), src.width)
        c1 == Min(Max(window.col_stop, 0), src.width)
    IN  IF ~WindowInRaster(window, src) /\ lib = "raise"
        THEN <<>>
        ELSE <<Band(Max(r1 - r0, 0), Max(c1 - c0, 0),
                  LAMBDA r, c : src.data[r0 + r][c0 + c])>>

\* dst.write(array, window=dst_window, indexes=1) on a new height x width
\* file: the array fills the window (stretched to it when the shapes differ);
\* the other pixels keep the fill value 0
write(height, width, array, win) ==
    Band(height, width,
         LAMBDA r, c :
            IF /\ win.row_off <= r /\ r < win.row_off + win.height
               /\ win.col_off <= c /\ c < win.col_off + win.width
            THEN array.data[((r - win.row_off) * array.height) \div win.height]
                           [((c - win.col_off) * array.width) \div win.width]
            ELSE 0)

----------------------------------------------------------------------------
(* MantleModisExporter.chop_roi                                            *)

\* The record of one chop_roi call on the file tif_file: array_of_data is
\* <<the array read>> and dst <<the tile left at new_tif_file_path>>, each
\* <<>> when there is none.  status is
\*   "written"     the cropped tile was written and the call returned,
\*   "open_raised" rasterio.open(new_tif_file_path, "w") refused the profile
\*                 (GDAL creates no file without at least one row and column),
\*   "io_raised"   the read or the write raised inside the with block, which
\*                 leaves the created file without any pixel written.
ChopRecord(tif_file, src, lib) ==
    LET aff == src.transform
        window == window_from_extent(region.lonmin, region.lonmax,
                                     region.latmin, region.latmax, aff)
        src_bounds == bounds(window, aff)
        height == window.row_stop - window.row_start
        width == window.col_stop - window.col_start
        transform == window_transform(window, aff)
        dst_window == IntWindow(round_offsets(round_shape(
                          from_bounds(src_bounds, transform))))
        opened == height >= 1 /\ width >= 1
        got == IF opened THEN read(src, window, lib) ELSE <<>>
        blank == Band(height, width, LAMBDA r, c : 0)
        fits == /\ 0 <= dst_window.row_off /\ 0 <= dst_window.col_off
                /\ dst_window.row_off + dst_window.height <= height
                /\ dst_window.col_off + dst_window.width <= width
        status == IF ~opened THEN "open_raised"
                  ELSE IF got = <<>> THEN "io_raised"
                  ELSE IF got[1].height = 0 \/ got[1].width = 0 \/ ~fits
                       THEN "io_raised"
                  ELSE "written"
    IN  [tif_file |-> tif_file, src |-> src, region |-> region,
         window |-> window, src_bounds |-> src_bounds,
         dst_window |-> dst_window,
         array_of_data |-> got,
         status |-> status,
         dst |-> CASE status = "open_raised" -> <<>>
                   [] status = "io_raised" -> <<Tile(transform, blank)>>
                   [] OTHER -> <<Tile(transform,
                                      write(height, width, got[1], dst_window))>>]

\* chop_roi(tif_file, subset_str, remove_original): the new file is
\* tif_file with "_{subset_str}" added to its name, here tif_file + 1
chop_roi(tif_file, remove_original, lib) ==
    /\ Len(chopLog) < MaxChops
    /\ tif_file < MaxChops
    /\ tif_file \in DOMAIN tifs
    /\ LET rec == ChopRecord(tif_file, tifs[tif_file], lib)
           created == IF rec.dst = <<>> THEN {} ELSE {tif_file + 1}
           unlinked == IF remove_original /\ rec.status = "written"
                       THEN {tif_file} ELSE {}
       IN  /\ chopLog' = Append(chopLog, rec)
           /\ tifs' = [n \in (DOMAIN tifs \cup created) \ unlinked |->
                         IF n \in created THEN rec.dst[1] ELSE tifs[n]]
    /\ UNCHANGED <<region, regridVars, rs, scriptVars, exporterVars>>

ChopInit ==
    /\ \E t \in Tiles : tifs = [n \in {0} |-> t]
    /\ region \in Regions
    /\ chopLog = <<>>
    /\ interim = {} /\ built = {} /\ rg = <<>> /\ nCalls = 0
    /\ rs = <<>>
    /\ ScriptsIdle /\ ExportersIdle

ChopNext ==
    \E tif_file \in 0..MaxChops, remove_original \in BOOLEAN, lib \in {"raise", "clip"} :
        chop_roi(tif_file, remove_original, lib)

ChopSpec == ChopInit /\ [][ChopNext]_vars

----------------------------------------------------------------------------
(* Window extraction and crop: the claims.                                 *)

\* the geographic extent of a tile: the hull of its corner coordinates
Extent(t) ==
    LET p == AffMul(t.transform, 0, 0)
        q == AffMul(t.transform, t.width, t.height)
    IN  [xmin |-> Min(p.x, q.x), xmax |-> Max(p.x, q.x),
         ymin |-> Min(p.y, q.y), ymax |-> Max(p.y, q.y)]

\* the region's box lies fully inside the tile's extent
BoxInside(reg, t) ==
    LET ext == Extent(t)
    IN  /\ ext.xmin <= reg.lonmin /\ reg.lonmax <= ext.xmax
        /\ ext.ymin <= reg.latmin /\ reg.latmax <= ext.ymax

Chops == {chopLog[i] : i \in 1..Len(chopLog)}

\* the x coordinate of the pixel boundary left of column col, and the y
\* coordinate of the boundary above row row, of a north-up tile
EdgeX(t, col) == AffMul(t.transform, col, 0).x

EdgeY(t, row) == AffMul(t.transform, 0, row).y

\* C1: window_from_extent returns the pixel indices of the upper-left corner
\* (xmin, ymax) as (col_start, row_start) and of the lower-right corner
\* (xmax, ymin) as (col_stop, row_stop), each less than one pixel away from
\* the corner's exact pixel coordinate; for a box inside the raster each is
\* the floor: the corner lies in the pixel that starts at that boundary.
C1_WindowIsFloorOfInverse ==
    \A rec \in Chops :
        LET w == rec.window
            t == rec.src
            reg == rec.region
        IN  /\ EdgeX(t, w.col_start - 1) < reg.lonmin
            /\ reg.lonmin < EdgeX(t, w.col_start + 1)
            /\ EdgeX(t, w.col_stop - 1) < reg.lonmax
            /\ reg.lonmax < EdgeX(t, w.col_stop + 1)
            /\ EdgeY(t, w.row_start - 1) > reg.latmax
            /\ reg.latmax > EdgeY(t, w.row_start + 1)
            /\ EdgeY(t, w.row_stop - 1) > reg.latmin
            /\ reg.latmin > EdgeY(t, w.row_stop + 1)
            /\ BoxInside(reg, t) =>
                /\ EdgeX(t, w.col_start) <= reg.lonmin
                /\ EdgeX(t, w.col_stop) <= reg.lonmax
                /\ EdgeY(t, w.row_start) >= reg.latmax
                /\ EdgeY(t, w.row_stop) >= reg.latmin

\* a box inside the raster none of whose corners lies on a pixel boundary
C1_Witness ==
    \E rec \in Chops :
        /\ BoxInside(rec.region, rec.src)
        /\ EdgeX(rec.src, rec.window.col_start) < rec.region.lonmin
        /\ EdgeX(rec.src, rec.window.col_stop) < rec.region.lonmax
        /\ EdgeY(rec.src, rec.window.row_start) > rec.region.latmax
        /\ EdgeY(rec.src, rec.window.row_stop) > rec.region.latmin

\* C2: for a box fully inside the raster's extent the window stays within
\* the raster: 0 <= row_start, row_stop <= H and 0 <= col_start, col_stop <= W.
C2_WindowWithinRaster ==
    \A rec \in Chops :
        BoxInside(rec.region, rec.src) =>
            /\ 0 <= rec.window.row_start /\ rec.window.row_start <= rec.src.height
            /\ 0 <= rec.window.row_stop /\ rec.window.row_stop <= rec.src.height
            /\ 0 <= rec.window.col_start /\ rec.window.col_start <= rec.src.width
            /\ 0 <= rec.window.col_stop /\ rec.window.col_stop <= rec.src.width

\* a box that reaches the raster's right and lower edges: the stops are W and H
C2_Witness ==
    \E rec \in Chops :
        /\ BoxInside(rec.region, rec.src)
        /\ rec.region.lonmax = Extent(rec.src).xmax
        /\ rec.region.latmin = Extent(rec.src).ymin
        /\ rec.window.col_stop = rec.src.width
        /\ rec.window.row_stop = rec.src.height

\* C3 (the claim as stated): a request whose box is not fully inside the
\* tile's extent fails: window_from_extent hands back no window with a
\* negative or beyond-extent index, and chop_roi leaves no output tile.
C3_OutOfExtentRequestFails ==
    \A rec \in Chops :
        ~BoxInside(rec.region, rec.src) =>
            /\ WindowInRaster(rec.window, rec.src)
            /\ rec.status # "written"
            /\ rec.dst = <<>>

\* C3, the part the source alone decides: a box that leaves the extent by
\* less than a pixel never yields a tile (int() moves the index to 0 here).
C3_NoSilentShift ==
    \A rec \in Chops :
        (~BoxInside(rec.region, rec.src) /\ WindowInRaster(rec.window, rec.src)) =>
            rec.status # "written"

\* C4: for a box fully inside the tile's extent a completed crop has exactly
\* (row_stop - row_start) x (col_stop - col_start) pixels, output pixel (r, c)
\* is source pixel (row_start + r, col_start + c), and cropping the output
\* again with the same box gives a tile of the same pixels.
C4_CropPreservesPixels ==
    /\ \A rec \in Chops :
        (BoxInside(rec.region, rec.src) /\ rec.status = "written") =>
            LET w == rec.window
                out == rec.dst[1]
            IN  /\ out.height = w.row_stop - w.row_start
                /\ out.width = w.col_stop - w.col_start
                /\ DOMAIN out.data = 0..(out.height - 1)
                /\ \A r \in DOMAIN out.data :
                    /\ DOMAIN out.data[r] = 0..(out.width - 1)
                    /\ \A c \in DOMAIN out.data[r] :
                        out.data[r][c] = rec.src.data[w.row_start + r][w.col_start + c]
    /\ \A i, j \in 1..Len(chopLog) :
        (/\ i < j
         /\ BoxInside(chopLog[i].region, chopLog[i].src)
         /\ chopLog[i].status = "written"
         /\ chopLog[j].tif_file = chopLog[i].tif_file + 1
         /\ chopLog[j].src = chopLog[i].dst[1]) =>
            /\ chopLog[j].status = "written"
            /\ chopLog[j].dst[1].height = chopLog[i].dst[1].height
            /\ chopLog[j].dst[1].width = chopLog[i].dst[1].width
            /\ chopLog[j].dst[1].data = chopLog[i].dst[1].data

\* a tile cropped to a window of several pixels that starts off the raster's
\* origin, and the crop cropped again
C4_Witness ==
    \E i, j \in 1..Len(chopLog) :
        /\ i < j
        /\ BoxInside(chopLog[i].region, chopLog[i].src)
        /\ chopLog[i].status = "written"
        /\ chopLog[i].window.row_start + chopLog[i].window.col_start > 0
        /\ chopLog[i].dst[1].height * chopLog[i].dst[1].width > 1
        /\ chopLog[j].tif_file = chopLog[i].tif_file + 1
        /\ chopLog[j].src = chopLog[i].dst[1]
        /\ chopLog[j].status = "written"

\* the output pixel (r, c) of a chop lies where the source pixel whose value
\* it holds lies (the source's pixel values are all different)
KeepsCoordinate(rec, r, c) ==
    \E sr \in DOMAIN rec.src.data :
        \E sc \in DOMAIN rec.src.data[sr] :
            /\ rec.src.data[sr][sc] = rec.dst[1].data[r][c]
            /\ AffMul(rec.src.transform, sc, sr) = AffMul(rec.dst[1].transform, c, r)

\* what chop_roi puts into the destination profile and the write window
MetadataUpdated(rec) ==
    LET w == rec.window
        out == rec.dst[1]
    IN  /\ out.height = w.row_stop - w.row_start
        /\ out.width = w.col_stop - w.col_start
        /\ out.transform.a = rec.src.transform.a
        /\ out.transform.e = rec.src.transform.e
        /\ out.transform.b = rec.src.transform.b
        /\ out.transform.d = rec.src.transform.d
        /\ out.transform.c = EdgeX(rec.src, w.col_start)
        /\ out.transform.f = EdgeY(rec.src, w.row_start)
        /\ rec.dst_window.row_off = 0
        /\ rec.dst_window.col_off = 0
        /\ rec.dst_window.height = out.height
        /\ rec.dst_window.width = out.width

\* C5 (the claim as stated): every tile chop_roi writes has the window's
\* spans as height and width and the source transform moved to the window's
\* origin, the write window has offset (0, 0) and the shape of the array
\* read, and every output pixel keeps the coordinate of its source pixel.
C5_MetadataCorrect ==
    \A rec \in Chops :
        rec.status = "written" =>
            /\ MetadataUpdated(rec)
            /\ <<rec.dst_window.height, rec.dst_window.width>> =
                   <<rec.array_of_data[1].height, rec.array_of_data[1].width>>
            /\ \A r \in DOMAIN rec.dst[1].data :
                \A c \in DOMAIN rec.dst[1].data[r] : KeepsCoordinate(rec, r, c)

\* C5 for the windows that lie within the raster
C5_MetadataCorrectInRaster ==
    \A rec \in Chops :
        (rec.status = "written" /\ WindowInRaster(rec.window, rec.src)) =>
            /\ MetadataUpdated(rec)
            /\ <<rec.dst_window.height, rec.dst_window.width>> =
                   <<rec.array_of_data[1].height, rec.array_of_data[1].width>>
            /\ \A r \in DOMAIN rec.dst[1].data :
                \A c \in DOMAIN rec.dst[1].data[r] : KeepsCoordinate(rec, r, c)

\* C5 for every window: the profile and the write window
C5_ProfileAlwaysUpdated ==
    \A rec \in Chops : rec.status = "written" => MetadataUpdated(rec)

\* C22: for a north-up transform and a box with xmin < xmax and
\* ymin < ymax, inside the raster or not, the window of window_from_extent
\* has row_start <= row_stop and col_start <= col_stop, so the height and
\* the width chop_roi puts into the destination profile are not negative.
C22_WindowStartNotAfterStop ==
    \A rec \in Chops :
        (/\ rec.region.lonmin < rec.region.lonmax
         /\ rec.region.latmin < rec.region.latmax
         /\ rec.src.transform.a > 0 /\ rec.src.transform.e < 0
         /\ rec.src.transform.b = 0 /\ rec.src.transform.d = 0) =>
            /\ rec.window.row_start <= rec.window.row_stop
            /\ rec.window.col_start <= rec.window.col_stop
            /\ rec.dst # <<>> =>
                   /\ rec.dst[1].height = rec.window.row_stop - rec.window.row_start
                   /\ rec.dst[1].width = rec.window.col_stop - rec.window.col_start
                   /\ rec.dst[1].height >= 0 /\ rec.dst[1].width >= 0

\* a box across the raster's left edge whose two x coordinates int() takes
\* to column 0 from either side, and which spans more than one pixel row
C22_Witness ==
    \E rec \in Chops :
        /\ rec.region.lonmin < Extent(rec.src).xmin
        /\ Extent(rec.src).xmin < rec.region.lonmax
        /\ rec.window.col_start = 0 /\ rec.window.col_stop = 0
        /\ rec.window.row_start < rec.window.row_stop

----------------------------------------------------------------------------
(* BasePreProcessor.regrid                                                 *)

\* A data variable: its name, whether its dtype is numeric, and its dims.
DataVar(name, numeric, dims) == [name |-> name, numeric |-> numeric, dims |-> dims]

precip == DataVar("precip", TRUE, <<"time", "lat", "lon">>)

vci == DataVar("vci", TRUE, <<"time", "lat", "lon">>)

\* a variable of strings on the grid
flag == DataVar("flag", FALSE, <<"lat", "lon">>)

\* a numeric variable that has no horizontal dims
index == DataVar("index", TRUE, <<"time">>)

\* A dataset: its dims, the lengths of lat and lon, its data variables in
\* order.  Its only coordinates are the index coordinates of its dims.
Dataset(dims, nlat, nlon, data_vars) ==
    [dims |-> dims, nlat |-> nlat, nlon |-> nlon, data_vars |-> data_vars]

Datasets ==
    {Dataset({"time", "lat", "lon"}, s[1], s[2], v) :
        s \in {<<2, 2>>, <<2, 3>>},
        v \in {<<precip, vci>>, <<precip, flag>>, <<precip, index>>}}
    \cup {Dataset({"time", d[1], d[2]}, 2, 2,
                   <<DataVar("precip", TRUE, <<"time", d[1], d[2]>>)>>) :
            d \in {<<"y", "lon">>, <<"lat", "x">>, <<"y", "x">>}}

ReferenceDatasets ==
    {Dataset({"lat", "lon"}, s[1], s[2], <<>>) : s \in {<<2, 2>>, <<3, 2>>}}
    \cup {Dataset({d[1], d[2]}, 2, 2, <<>>) :
            d \in {<<"y", "lon">>, <<"lat", "x">>, <<"y", "x">>}}

regridding_methods == {"bilinear", "conservative", "nearest_s2d", "nearest_d2s", "patch"}

Methods == regridding_methods \cup {"cubic"}

\* a variant that accepts a dataset with one of the two dims
HasLatLon_either(d) == "lat" \in d.dims \/ "lon" \in d.dims

\* ('lat' in d.dims) & ('lon' in d.dims)
HasLatLon(d) == "lat" \in d.dims /\ "lon" \in d.dims

\* f'{method}_{shape_in[0]}x{shape_in[1]}_{shape_out[0]}x{shape_out[1]}.nc'
WeightsFilename(method, ds, reference_ds) ==
    [method |-> method,
     shape_in |-> <<ds.nlat, ds.nlon>>,
     shape_out |-> <<reference_ds.nlat, reference_ds.nlon>>]

reuse_weights_on == TRUE

\* the reuse_weights argument regrid passes to xe.Regridder
reuse_weights == FALSE

\* xe.Regridder(ds, ds_out, method, filename, reuse_weights): a file of that
\* name is read as the weights when reuse_weights is set; otherwise it is
\* removed, and the weights are computed and written to the file
Regridder(files, filename) ==
    IF filename \in files /\ reuse_weights
    THEN [weights |-> "reused", files |-> files]
    ELSE [weights |-> "computed", files |-> files \cup {filename}]

\* regridder.clean_weight_file()
clean_weight_file(files, filename) == files \ {filename}

\* list(ds.var().variables): the names left by the variance over all dims,
\* a reduction that keeps the numeric data variables only
RECURSIVE variables(_)
variables(data_vars) ==
    IF data_vars = <<>> THEN <<>>
    ELSE IF data_vars[1].numeric
         THEN <<data_vars[1]>> \o variables(Tail(data_vars))
         ELSE variables(Tail(data_vars))

\* regridder(ds[var]) works on the two rightmost dims of the variable, which
\* must be the grid the regridder was built for; it raises ValueError otherwise
Regriddable(var) ==
    /\ Len(var.dims) >= 2
    /\ SubSeq(var.dims, Len(var.dims) - 1, Len(var.dims)) = <<"lat", "lon">>

\* the loop over variables: the names put into output_dict, up to the first
\* variable the regridder raises on
RECURSIVE RegridLoop(_)
RegridLoop(vs) ==
    IF vs = <<>> THEN [output_dict |-> <<>>, raised |-> FALSE]
    ELSE IF ~Regriddable(vs[1]) THEN [output_dict |-> <<>>, raised |-> TRUE]
    ELSE LET rest == RegridLoop(Tail(vs))
         IN  [output_dict |-> <<vs[1].name>> \o rest.output_dict,
              raised |-> rest.raised]

\* The record of one regrid call: raised is the exception that ended it
\* ("none" when it returned), output the data variables of the dataset
\* returned, regridded the variables the regridder was applied to with
\* success, weights what the Regridder did about the weights ("none" when
\* it was not built), files the interim folder at the end of the call.
RegridRecord(ds, reference_ds, method) ==
    LET filename == WeightsFilename(method, ds, reference_ds)
        valid == /\ HasLatLon(reference_ds) /\ HasLatLon(ds)
                 /\ method \in regridding_methods
        regridder == Regridder(interim, filename)
        loop == RegridLoop(variables(ds.data_vars))
        base == [ds |-> ds, reference_ds |-> reference_ds, method |-> method,
                 filename |-> filename, files_before |-> interim,
                 built_before |-> built]
    IN  IF ~valid
        THEN base @@ [raised |-> "AssertionError", weights |-> "none",
                      regridded |-> <<>>, output |-> <<>>, files |-> interim]
        ELSE IF loop.raised
        THEN base @@ [raised |-> "ValueError", weights |-> regridder.weights,
                      regridded |-> loop.output_dict, output |-> <<>>,
                      files |-> regridder.files]
        ELSE base @@ [raised |-> "none", weights |-> regridder.weights,
                      regridded |-> loop.output_dict, output |-> loop.output_dict,
                      files |-> clean_weight_file(regridder.files, filename)]

regrid(ds, reference_ds, method) ==
    /\ nCalls < MaxCalls
    /\ LET rec == RegridRecord(ds, reference_ds, method)
       IN  /\ rg' = <<rec>>
           /\ interim' = rec.files
           /\ built' = IF rec.weights = "none" THEN built
                       ELSE built \cup {rec.filename}
    /\ nCalls' = nCalls + 1
    /\ UNCHANGED <<chopVars, rs, scriptVars, exporterVars>>

RegridInit ==
    /\ interim = {} /\ built = {} /\ rg = <<>> /\ nCalls = 0
    /\ tifs = <<>> /\ region = <<>> /\ chopLog = <<>>
    /\ rs = <<>>
    /\ ScriptsIdle /\ ExportersIdle

RegridNext ==
    \E ds \in Datasets, reference_ds \in ReferenceDatasets, method \in Methods :
        regrid(ds, reference_ds, method)

RegridSpec == RegridInit /\ [][RegridNext]_vars

----------------------------------------------------------------------------
(* Regridding: the claims.                                                 *)

Range(seq) == {seq[i] : i \in 1..Len(seq)}

VarNames(data_vars) == {data_vars[i].name : i \in 1..Len(data_vars)}

\* C6 (the claim as stated): the dataset regrid returns has exactly the data
\* variables of the input dataset, each regridded.
C6_VariableSetPreserved ==
    \A rec \in Range(rg) :
        rec.raised = "none" =>
            /\ Range(rec.output) = VarNames(rec.ds.data_vars)
            /\ Range(rec.regridded) = VarNames(rec.ds.data_vars)

\* C6 for the numeric variables: each is in the dataset returned, regridded,
\* and the dataset returned holds nothing else
C6_NumericVariablesKept ==
    \A rec \in Range(rg) :
        rec.raised = "none" =>
            /\ Range(rec.output) =
                   {v.name : v \in {u \in Range(rec.ds.data_vars) : u.numeric}}
            /\ rec.regridded = rec.output

\* C7: regrid fails with the validation error whenever the source or the
\* reference dataset lacks the lat or the lon dim, before a regridder is
\* built: the interim folder is as it was and no variable was regridded.
C7_MissingDimsRejected ==
    \A rec \in Range(rg) :
        ("lat" \notin rec.ds.dims \/ "lon" \notin rec.ds.dims
            \/ "lat" \notin rec.reference_ds.dims
            \/ "lon" \notin rec.reference_ds.dims) =>
                /\ rec.raised = "AssertionError"
                /\ rec.weights = "none"
                /\ rec.regridded = <<>>
                /\ interim = rec.files_before
                /\ built = rec.built_before

\* a call with a source dataset that has lon and no lat, and a valid
\* reference dataset and method
C7_Witness ==
    \E rec \in Range(rg) :
        /\ "lat" \notin rec.ds.dims /\ "lon" \in rec.ds.dims
        /\ "lat" \in rec.reference_ds.dims /\ "lon" \in rec.reference_ds.dims
        /\ rec.method \in regridding_methods
        /\ rec.raised = "AssertionError"

\* C8 (the claim as stated): once a regrid call has ended, no weights file
\* it wrote remains in the interim folder.
C8_WeightsFileDeletedAtEnd ==
    \A rec \in Range(rg) : rec.weights = "computed" => rec.filename \notin interim

\* C8 on the two ways a call ends: a call that returns has deleted the
\* weights file it wrote; a call that raises after its regridder was built
\* leaves the file.
C8_WeightsFileDeletedOnReturn ==
    \A rec \in Range(rg) :
        /\ (rec.weights # "none" /\ rec.raised = "none") => rec.filename \notin interim
        /\ (rec.weights # "none" /\ rec.raised # "none") => rec.filename \in interim

\* C9 (the claim as stated): a call with the method and shapes of an earlier
\* call of the run reuses the weights that call computed.
C9_WeightsReusedWithinRun ==
    \A rec \in Range(rg) :
        (rec.weights # "none" /\ rec.filename \in rec.built_before) =>
            rec.weights = "reused"

\* C9 as amended: the file is named after (method, source shape, destination
\* shape) and never reused: every call that builds a regridder computes the
\* weights again and writes them, also when an earlier call of the run used
\* that name or left its file in the folder.
C9_WeightsAlwaysComputed ==
    \A rec \in Range(rg) :
        /\ rec.filename = [method |-> rec.method,
                           shape_in |-> <<rec.ds.nlat, rec.ds.nlon>>,
                           shape_out |-> <<rec.reference_ds.nlat, rec.reference_ds.nlon>>]
        /\ (rec.raised # "AssertionError") => rec.weights = "computed"

\* a call under the name an earlier call built with, whose file is still in
\* the folder when the regridder is built
C9_Witness ==
    \E rec \in Range(rg) :
        /\ rec.filename \in rec.built_before
        /\ rec.filename \in rec.files_before
        /\ rec.weights = "computed"

----------------------------------------------------------------------------
(* BasePreProcessor.resample_time                                          *)
(*                                                                         *)
(* A time is a day: the number of days since 1 January of year 0, in a     *)
(* calendar of 365-day years.  A series is a sequence of samples           *)
(* [time, value] with different times; a resampled series is a sequence of *)
(* samples [time, num, den] of value num/den, den = 0 standing for NaN.    *)

\* the days of a year before month m, m in 1..13
DaysBefore == <<0, 31, 59, 90, 120, 151, 181, 212, 243, 273, 304, 334, 365>>

YearLength == DaysBefore[13]

\* the calendar month of day t, counted from month 0 = January of year 0
MonthOf(t) ==
    LET doy == t % YearLength
    IN  12 * (t \div YearLength)
        + (CHOOSE m \in 1..12 : DaysBefore[m] <= doy /\ doy < DaysBefore[m + 1]) - 1

\* whether day t is the last day of its month
IsMonthEnd(t) == \E m \in 2..13 : (t % YearLength) + 1 = DaysBefore[m]

RECURSIVE MonthEndFrom(_)
\* the first month end on or after day t
MonthEndFrom(t) == IF IsMonthEnd(t) THEN t ELSE MonthEndFrom(t + 1)

\* a variant whose monthly bins are closed on the left: a month-end sample
\* falls into the bin of the next month end
BinLabel_closed_left(freq, t) ==
    IF freq = "D" THEN t ELSE MonthEndFrom(t + 1)

\* the label of the bin a sample of time t falls into: for "M" the bins end
\* at the month ends, are closed on the right and carry the month end as
\* label; for "D" each day is its own bin
BinLabel(freq, t) ==
    IF freq = "D" THEN t ELSE MonthEndFrom(t)

RECURSIVE LabelsFrom(_, _, _)
\* the bin labels from label first to label last, in order
LabelsFrom(freq, first, last) ==
    IF first > last THEN <<>>
    ELSE <<first>> \o LabelsFrom(freq, BinLabel(freq, first + 1), last)

\* the resampler's full index: the labels of all bins from the bin of the
\* first sample to the bin of the last, the empty bins included
FullIndex(freq, sorted) ==
    LabelsFrom(freq, BinLabel(freq, sorted[1].time),
               BinLabel(freq, sorted[Len(sorted)].time))

RECURSIVE Insert(_, _)
Insert(sample, sorted) ==
    IF sorted = <<>> THEN <<sample>>
    ELSE IF sample.time < sorted[1].time THEN <<sample>> \o sorted
    ELSE <<sorted[1]>> \o Insert(sample, Tail(sorted))

\* a variant that leaves the samples in the order they were given
sortby_time_skipped(ds) == ds

RECURSIVE sortby_time(_)
\* ds.sortby('time'): ascending and stable
sortby_time(ds) ==
    IF ds = <<>> THEN <<>>
    ELSE Insert(ds[Len(ds)], sortby_time(SubSeq(ds, 1, Len(ds) - 1)))

RECURSIVE SumValues(_)
SumValues(samples) ==
    IF samples = <<>> THEN 0 ELSE samples[1].value + SumValues(Tail(samples))

\* resampler.mean(): per label the mean of the samples of its bin
resample_mean(freq, sorted) ==
    LET full_index == FullIndex(freq, sorted)
        InBin(label) == SelectSeq(sorted, LAMBDA x : BinLabel(freq, x.time) = label)
    IN  [i \in 1..Len(full_index) |->
            [time |-> full_index[i],
             num |-> SumValues(InBin(full_index[i])),
             den |-> Len(InBin(full_index[i]))]]

\* resampler.nearest(): per label the value of the sample nearest in time;
\* of two samples equally near, the later one
resample_nearest(freq, sorted) ==
    LET full_index == FullIndex(freq, sorted)
        Nearest(label) ==
            CHOOSE i \in 1..Len(sorted) :
                \A j \in 1..Len(sorted) :
                    \/ Abs(sorted[i].time - label) < Abs(sorted[j].time - label)
                    \/ /\ Abs(sorted[i].time - label) = Abs(sorted[j].time - label)
                       /\ j <= i
    IN  [i \in 1..Len(full_index) |->
            [time |-> full_index[i], num |-> sorted[Nearest(full_index[i])].value, den |-> 1]]

\* the values and the days samples are drawn from: 30 and 31 January, 1 and
\* 2 February, 28 February, 1 March of year 0
Values == {0, 1}

Times == {29, 30, 31, 32, 58, 59}

RECURSIVE SeriesOfLength(_)
SeriesOfLength(n) ==
    IF n = 0 THEN {<<>>}
    ELSE {Append(ds, [time |-> t, value |-> v]) :
            ds \in SeriesOfLength(n - 1), t \in Times, v \in Values}

\* the series of 1 to MaxSamples samples with different times, in any order
Series ==
    {ds \in UNION {SeriesOfLength(n) : n \in 1..MaxSamples} :
        \A i, j \in 1..Len(ds) : i # j => ds[i].time # ds[j].time}

\* the dataset resample_time returns
Resampled(ds, resample_length, upsampling) ==
    LET sorted == sortby_time(ds)
    IN  IF ~upsampling
        THEN resample_mean(resample_length, sorted)
        ELSE resample_nearest(resample_length, sorted)

\* one call of resample_time in a behaviour
resample_time(ds, resample_length, upsampling) ==
    /\ rs = <<>>
    /\ rs' = <<[ds |-> ds, resample_length |-> resample_length,
                upsampling |-> upsampling,
                out |-> Resampled(ds, resample_length, upsampling)]>>
    /\ UNCHANGED <<chopVars, regridVars, scriptVars, exporterVars>>

ResampleInit ==
    /\ rs = <<>>
    /\ interim = {} /\ built = {} /\ rg = <<>> /\ nCalls = 0
    /\ tifs = <<>> /\ region = <<>> /\ chopLog = <<>>
    /\ ScriptsIdle /\ ExportersIdle

\* a behaviour holds one call: its inputs are drawn only while none was made
ResampleNext ==
    /\ rs = <<>>
    /\ \E ds \in Series, resample_length \in {"M", "D"}, upsampling \in BOOLEAN :
           resample_time(ds, resample_length, upsampling)

ResampleSpec == ResampleInit /\ [][ResampleNext]_vars

----------------------------------------------------------------------------
(* Temporal resampling: the claims.                                        *)

\* a daily series: its samples are the days from its first to its last day
DailySeries(ds) ==
    \A i, j \in 1..Len(ds) :
        \A t \in ds[i].time..ds[j].time : \E k \in 1..Len(ds) : ds[k].time = t

RECURSIVE SumOver(_, _)
\* the sum of the values of the samples of ds at the positions in S
SumOver(ds, S) ==
    IF S = {} THEN 0
    ELSE LET i == CHOOSE x \in S : TRUE
         IN  ds[i].value + SumOver(ds, S \ {i})

\* the positions of the samples of ds in calendar month m
InMonth(ds, m) == {i \in 1..Len(ds) : MonthOf(ds[i].time) = m}

\* C10: resample_time(ds, "M", upsampling=False) on a daily series yields
\* exactly one sample per calendar month the series covers, in order, and
\* each is the arithmetic mean of the daily values of that month (so a
\* month of one constant value yields that value).
C10_MonthlyMeanOfDailySeries ==
    \A rec \in Range(rs) :
        (~rec.upsampling /\ rec.resample_length = "M" /\ DailySeries(rec.ds)) =>
            LET months == {MonthOf(rec.ds[i].time) : i \in 1..Len(rec.ds)}
            IN  /\ Len(rec.out) = Cardinality(months)
                /\ {MonthOf(rec.out[k].time) : k \in 1..Len(rec.out)} = months
                /\ \A k \in 1..(Len(rec.out) - 1) :
                       rec.out[k].time < rec.out[k + 1].time
                /\ \A k \in 1..Len(rec.out) :
                    LET days == InMonth(rec.ds, MonthOf(rec.out[k].time))
                    IN  /\ rec.out[k].den # 0
                        /\ rec.out[k].num * Cardinality(days)
                               = rec.out[k].den * SumOver(rec.ds, days)
                        /\ \A v \in Values :
                            (\A i \in days : rec.ds[i].value = v) =>
                                rec.out[k].num = v * rec.out[k].den

\* a daily series from 31 January into February, given out of order, whose
\* February values differ
C10_Witness ==
    \E rec \in Range(rs) :
        /\ ~rec.upsampling /\ rec.resample_length = "M" /\ DailySeries(rec.ds)
        /\ Len(rec.ds) = 3
        /\ rec.ds[1].time > rec.ds[2].time
        /\ \E i, j \in 1..3 :
            /\ MonthOf(rec.ds[i].time) = 1 /\ MonthOf(rec.ds[j].time) = 1
            /\ rec.ds[i].value # rec.ds[j].value
        /\ \E i \in 1..3 : IsMonthEnd(rec.ds[i].time)
        /\ Len(rec.out) = 2

\* a monthly series: one sample in each calendar month from its first
\* month to its last
MonthlySeries(ds) ==
    /\ \A i, j \in 1..Len(ds) :
           i # j => MonthOf(ds[i].time) # MonthOf(ds[j].time)
    /\ \A i, j \in 1..Len(ds) :
           \A m \in MonthOf(ds[i].time)..MonthOf(ds[j].time) :
               \E k \in 1..Len(ds) : MonthOf(ds[k].time) = m

\* C11 (the claim as stated): resample_time(ds, "D", upsampling=True) on a
\* monthly series gives every output day the input value of the calendar
\* month that contains the day.
C11_UpsampleReproducesMonth ==
    \A rec \in Range(rs) :
        (rec.upsampling /\ rec.resample_length = "D" /\ MonthlySeries(rec.ds)) =>
            \A k \in 1..Len(rec.out) :
                \E i \in 1..Len(rec.ds) :
                    /\ MonthOf(rec.ds[i].time) = MonthOf(rec.out[k].time)
                    /\ rec.out[k].den # 0
                    /\ rec.out[k].num = rec.ds[i].value * rec.out[k].den

\* what the upsampling does give: one sample per day from the first to the
\* last input sample, each with the value of an input sample no other
\* input sample is nearer to
C11_UpsampleIsNearest ==
    \A rec \in Range(rs) :
        (rec.upsampling /\ rec.resample_length = "D") =>
            LET first == sortby_time(rec.ds)[1].time
            IN  /\ \A k \in 1..Len(rec.out) : rec.out[k].time = first + k - 1
                /\ rec.out[Len(rec.out)].time = sortby_time(rec.ds)[Len(rec.ds)].time
                /\ \A k \in 1..Len(rec.out) :
                       \E i \in 1..Len(rec.ds) :
                           /\ rec.out[k].num = rec.ds[i].value /\ rec.out[k].den = 1
                           /\ \A j \in 1..Len(rec.ds) :
                                  Abs(rec.ds[i].time - rec.out[k].time)
                                      <= Abs(rec.ds[j].time - rec.out[k].time)

RECURSIVE Ascending(_)
\* the samples of the set S in ascending order of time
Ascending(S) ==
    IF S = {} THEN <<>>
    ELSE LET first == CHOOSE x \in S : \A y \in S : x.time <= y.time
         IN  <<first>> \o Ascending(S \ {first})

\* C12: resample_time sorts by time before it resamples: the result of a
\* call, mean or nearest, is fixed by the set of its (time, value) samples,
\* being the result for these samples given in ascending order, so every
\* order of the same samples has the same result; its times are ascending.
C12_ResultIndependentOfOrder ==
    \A rec \in Range(rs) :
        /\ rec.out = Resampled(Ascending(Range(rec.ds)), rec.resample_length,
                               rec.upsampling)
        /\ \A k \in 1..(Len(rec.out) - 1) : rec.out[k].time < rec.out[k + 1].time

\* three samples given in descending order and upsampled to days
C12_Witness ==
    \E rec \in Range(rs) :
        /\ Len(rec.ds) = 3
        /\ rec.ds # Ascending(Range(rec.ds))
        /\ rec.ds[1].time > rec.ds[2].time /\ rec.ds[2].time > rec.ds[3].time
        /\ rec.ds[1].value # rec.ds[3].value
        /\ rec.upsampling /\ rec.resample_length = "D"
        /\ Len(rec.out) > 3

----------------------------------------------------------------------------
(* scripts/drafts/skill_score.py: create_skill_score                       *)
(*                                                                         *)
(* all_metrics maps a metric name to a frame, a frame maps a column (a     *)
(* model or a benchmark) to its metric value; one station per frame.  A    *)
(* score is the fraction num/den; den = 0 stands for the inf or NaN the    *)
(* float division gives.                                                   *)

perf_lookup ==
    [kge |-> 1, nse |-> 1, inv_kge |-> 1, log_nse |-> 1,
     mse |-> 0, mape |-> 0, mam30_ape |-> 0, rmse |-> 0]

\* a variant with the benchmark and the perfect value exchanged in the
\* denominator
skill_score_swapped(model, bench, perfect) ==
    [num |-> model - bench, den |-> bench - perfect]

skill_score(model, bench, perfect) ==
    [num |-> model - bench, den |-> perfect - bench]

RECURSIVE ScoreLoop(_, _, _, _)
\* the loop over models: metric_ss after the models of the list were scored
ScoreLoop(metric_df, bench, perfect, models) ==
    IF models = <<>> THEN <<>>
    ELSE LET n == Len(models)
             before == ScoreLoop(metric_df, bench, perfect, SubSeq(models, 1, n - 1))
             score == skill_score(metric_df[models[n]], bench, perfect)
         IN  [m \in (DOMAIN before) \cup {models[n]} |->
                 IF m = models[n] THEN score ELSE before[m]]

\* the record of a call: what it raised, how often skill_score was called
\* and the frame it returns
SkillRecord(all_metrics, metric, benchmark, models) ==
    LET base == [all_metrics |-> all_metrics, metric |-> metric,
                 benchmark |-> benchmark, models |-> models]
    IN  IF metric \notin DOMAIN perf_lookup
        THEN base @@ [raised |-> "AssertionError", computed |-> 0, metric_ss |-> <<>>]
        ELSE LET metric_df == all_metrics[metric]
                 bench == metric_df[benchmark]
             IN  base @@ [raised |-> "none", computed |-> Len(models),
                          metric_ss |-> ScoreLoop(metric_df, bench,
                                                  perf_lookup[metric], models)]

create_skill_score(all_metrics, metric, benchmark, models) ==
    /\ ss = <<>>
    /\ ss' = <<SkillRecord(all_metrics, metric, benchmark, models)>>
    /\ UNCHANGED <<chopVars, regridVars, rs, shap, exporterVars>>

\* the columns of a frame, the metrics of all_metrics ("bias" has no perfect
\* value in perf_lookup) and the model lists of a call
Columns == {"climatology_doy", "EALSTM", "LSTM"}

MetricNames == {"kge", "rmse", "bias"}

MetricValues == (-MaxMetric)..MaxMetric

ModelLists == {<<"LSTM">>, <<"EALSTM", "LSTM">>, <<"LSTM", "EALSTM">>}

SkillInit ==
    /\ ss = <<>> /\ shap = <<>>
    /\ ExportersIdle
    /\ rs = <<>>
    /\ interim = {} /\ built = {} /\ rg = <<>> /\ nCalls = 0
    /\ tifs = <<>> /\ region = <<>> /\ chopLog = <<>>

\* a behaviour holds one call; every metric of all_metrics has the same frame
SkillNext ==
    /\ ss = <<>>
    /\ \E frame \in [Columns -> MetricValues], metric \in MetricNames,
          benchmark \in Columns, models \in ModelLists :
           create_skill_score([m \in MetricNames |-> frame], metric, benchmark, models)

SkillSpec == SkillInit /\ [][SkillNext]_vars

----------------------------------------------------------------------------
(* Skill scores: the claims.                                               *)

\* C13: create_skill_score returns, for every model of `models`, the score
\* (model_metric - benchmark_metric) / (perfect_metric - benchmark_metric)
\* with perfect_metric = perf_lookup[metric]; where the benchmark's metric
\* differs from the perfect value, a model whose metric is the benchmark's
\* scores 0 and one whose metric is the perfect value scores 1; a metric
\* outside perf_lookup is rejected before any score is computed.
C13_SkillScore ==
    \A rec \in Range(ss) :
        LET metric_df == rec.all_metrics[rec.metric]
            bench == metric_df[rec.benchmark]
        IN  IF rec.metric \in DOMAIN perf_lookup
            THEN LET perfect == perf_lookup[rec.metric]
                 IN  /\ rec.raised = "none"
                     /\ DOMAIN rec.metric_ss = Range(rec.models)
                     /\ \A m \in Range(rec.models) :
                         LET score == rec.metric_ss[m]
                         IN  /\ score.num * (perfect - bench)
                                    = (metric_df[m] - bench) * score.den
                             /\ (score.den = 0) <=> (perfect = bench)
                             /\ (perfect # bench /\ metric_df[m] = bench) =>
                                    score.num = 0 /\ score.den # 0
                             /\ (perfect # bench /\ metric_df[m] = perfect) =>
                                    score.num = score.den /\ score.den # 0
            ELSE /\ rec.raised = "AssertionError"
                 /\ rec.computed = 0
                 /\ rec.metric_ss = <<>>

\* a call on two models for an error metric (perfect value 0), one model
\* as good as the benchmark and one perfect
C13_Witness ==
    \E rec \in Range(ss) :
        /\ rec.metric = "rmse" /\ rec.raised = "none"
        /\ Len(rec.models) = 2
        /\ rec.all_metrics["rmse"][rec.benchmark] # 0
        /\ \E m, n \in Range(rec.models) :
            /\ rec.all_metrics["rmse"][m] = rec.all_metrics["rmse"][rec.benchmark]
            /\ rec.all_metrics["rmse"][n] = 0
            /\ rec.metric_ss[m].num = 0
            /\ rec.metric_ss[n].num = rec.metric_ss[n].den

----------------------------------------------------------------------------
(* src/analysis/plot_shap.py: the month labels of plot_shap_values         *)
(*                                                                         *)
(* Of the input only its number of time steps len(x_val) matters to the    *)
(* labels; pred_date is <<month, year>>.                                   *)

int2month ==
    <<"Jan", "Feb", "Mar", "Apr", "May", "Jun",
      "Jul", "Aug", "Sep", "Oct", "Nov", "Dec">>

\* a variant of the loop's step that keeps the year when the month wraps
PrevMonth_same_year(cur) ==
    IF cur[1] - 1 = 0 THEN <<12, cur[2]>> ELSE <<cur[1] - 1, cur[2]>>

\* one pass of the loop body: <<cur_month, cur_year>> after it
PrevMonth(cur) ==
    IF cur[1] - 1 = 0 THEN <<12, cur[2] - 1>> ELSE <<cur[1] - 1, cur[2]>>

RECURSIVE DatesLoop(_, _)
\* the pairs of int_months and int_years after n passes, in append order
DatesLoop(cur, n) ==
    IF n = 0 THEN <<>>
    ELSE <<PrevMonth(cur)>> \o DatesLoop(PrevMonth(cur), n - 1)

\* seq[::-1]
Reversed(seq) == [i \in 1..Len(seq) |-> seq[Len(seq) + 1 - i]]

\* seq[start::2], start counted from 0
EverySecond(seq, start) ==
    [k \in 1..((Len(seq) - start + 1) \div 2) |-> seq[start + 2 * k - 1]]

\* the record of a call with pred_date given: the labels computed and the
\* ticks and tick labels set on the x axis
ShapRecord(len_x_val, pred_date) ==
    LET months == [i \in 1..len_x_val |-> i]
        int_dates == DatesLoop(pred_date, len_x_val)
        str_dates == Reversed([i \in 1..len_x_val |->
                        [month |-> int2month[int_dates[i][1]], year |-> int_dates[i][2]]])
        modulo == (Len(months) - 1) % 2
    IN  [len_x_val |-> len_x_val, pred_date |-> pred_date,
         int_months |-> [i \in 1..len_x_val |-> int_dates[i][1]],
         str_dates |-> str_dates,
         xticks |-> EverySecond(months, modulo),
         xticklabels |-> EverySecond(str_dates, modulo)]

plot_shap_values(len_x_val, pred_date) ==
    /\ shap = <<>>
    /\ shap' = <<ShapRecord(len_x_val, pred_date)>>
    /\ UNCHANGED <<chopVars, regridVars, rs, ss, exporterVars>>

Years == {2019, 2020}

ShapInit ==
    /\ ss = <<>> /\ shap = <<>>
    /\ ExportersIdle
    /\ rs = <<>>
    /\ interim = {} /\ built = {} /\ rg = <<>> /\ nCalls = 0
    /\ tifs = <<>> /\ region = <<>> /\ chopLog = <<>>

ShapNext ==
    /\ shap = <<>>
    /\ \E len_x_val \in 0..MaxSteps, month \in 1..12, year \in Years :
           plot_shap_values(len_x_val, <<month, year>>)

ShapSpec == ShapInit /\ [][ShapNext]_vars

----------------------------------------------------------------------------
(* SHAP plot labels: the claims.                                           *)

\* the months since January of year 0 of a month number or a label
MonthsOf(month, year) == 12 * year + month - 1

MonthsOfLabel(label) ==
    MonthsOf(CHOOSE m \in 1..12 : int2month[m] = label.month, label.year)

\* whether label is the month that lies k months before pred_date
IsMonthBefore(label, pred_date, k) ==
    MonthsOfLabel(label) = MonthsOf(pred_date[1], pred_date[2]) - k

\* C18 (the claim as stated): the x axis carries n labels, and label i
\* (0-based) is the month n - i months before pred_date.
C18_AxisCarriesAllMonths ==
    \A rec \in Range(shap) :
        /\ Len(rec.xticklabels) = rec.len_x_val
        /\ \A i \in 0..(Len(rec.xticklabels) - 1) :
               IsMonthBefore(rec.xticklabels[i + 1], rec.pred_date, rec.len_x_val - i)

\* C18 as amended: the labels computed are the n months before pred_date
\* in chronological order, every month number in 1..12 and the year one
\* less after each wrap from January to December; the x axis carries every
\* second of them, the last one always, each at the position of its time
\* step.
C18_EverySecondMonthLabelled ==
    \A rec \in Range(shap) :
        LET n == rec.len_x_val
        IN  /\ Len(rec.str_dates) = n
            /\ \A i \in 0..(n - 1) :
                   IsMonthBefore(rec.str_dates[i + 1], rec.pred_date, n - i)
            /\ \A i \in 1..n : rec.int_months[i] \in 1..12
            /\ \A i \in 1..(n - 1) :
                   /\ rec.int_months[i] = 1 =>
                          /\ rec.int_months[i + 1] = 12
                          /\ rec.str_dates[n - i].year = rec.str_dates[n + 1 - i].year - 1
                   /\ rec.int_months[i] # 1 =>
                          rec.str_dates[n - i].year = rec.str_dates[n + 1 - i].year
            /\ Len(rec.xticks) = Len(rec.xticklabels)
            /\ {rec.xticks[k] : k \in 1..Len(rec.xticks)}
                   = {p \in 1..n : (n - p) % 2 = 0}
            /\ \A k \in 1..(Len(rec.xticks) - 1) : rec.xticks[k] < rec.xticks[k + 1]
            /\ \A k \in 1..Len(rec.xticks) :
                   rec.xticklabels[k] = rec.str_dates[rec.xticks[k]]

\* a call with twelve time steps and a prediction in March: the labels
\* wrap from January to December and the axis carries six of them
C18_Witness ==
    \E rec \in Range(shap) :
        /\ rec.len_x_val = 12 /\ rec.pred_date[1] = 3
        /\ Len(rec.xticklabels) = 6
        /\ rec.str_dates[1].month = "Mar" /\ rec.str_dates[1].year = rec.pred_date[2] - 1
        /\ rec.xticklabels[6].month = "Feb" /\ rec.xticklabels[6].year = rec.pred_date[2]

----------------------------------------------------------------------------
(* src/exporters/cds.py: CDSExporter and ERA5Exporter                      *)
(*                                                                         *)
(* A selection request is a function from its keys to values.  A value is  *)
(* a Python list, List(items), or a Python string, Plain(text); an item of *)
(* a list is a string, Str(text), or an integer, IntEl(text), text being   *)
(* its decimal digits.                                                     *)

Str(text) == [type |-> "str", text |-> text]

IntEl(text) == [type |-> "int", text |-> text]

List(items) == [kind |-> "list", text |-> "", items |-> items]

Plain(text) == [kind |-> "str", text |-> text, items |-> <<>>]

Digit == <<"0", "1", "2", "3", "4", "5", "6", "7", "8", "9">>

\* '{:02d}'.format(n), n in 0..99
TwoDigits(n) == Digit[(n \div 10) + 1] \o Digit[(n % 10) + 1]

\* str(year), year of four digits
YearStr(year) == TwoDigits(year \div 100) \o TwoDigits(year % 100)

\* the lists of get_era5_times: the years 1979 to 2019, the months, the
\* days and the hours as strings
era5_years == [i \in 1..41 |-> Str(YearStr(1978 + i))]

era5_months == [i \in 1..12 |-> Str(TwoDigits(i))]

era5_days == [i \in 1..31 |-> Str(TwoDigits(i))]

era5_times == [i \in 1..24 |-> Str(TwoDigits(i - 1) \o ":00")]

get_era5_times(granularity) ==
    LET selection_dict == [year |-> List(era5_years), month |-> List(era5_months),
                           time |-> List(era5_times)]
    IN  IF granularity = "hourly"
        THEN selection_dict @@ [day |-> List(era5_days)]
        ELSE selection_dict

\* self.create_area(self.get_kenya()): the area string of the Kenya region
kenya_area == Plain("kenya_area")

pressure_level_variables ==
    {"divergence", "fraction_of_cloud_cover", "geopotential",
     "ozone_mass_mixing_ratio", "potential_vorticity", "relative_humidity",
     "specific_cloud_ice_water_content", "specific_cloud_liquid_water_content",
     "specific_humidity", "specific_rain_water_content",
     "specific_snow_water_content", "temperature", "u_component_of_wind",
     "v_component_of_wind", "vertical_velocity", "vorticity"}

get_datastore(variable) ==
    IF variable \in pressure_level_variables THEN "pressure-levels" ELSE "single-levels"

\* the year strings in the order of list.sort(): for strings of four
\* digits the order of the years
YearStrings == [year \in 1979..2019 |-> YearStr(year)]

YearRank(text) == CHOOSE year \in DOMAIN YearStrings : YearStrings[year] = text

RECURSIVE InsertYear(_, _)
\* item put into the sorted list behind the items that are not greater
InsertYear(item, sorted) ==
    IF sorted = <<>> THEN <<item>>
    ELSE IF YearRank(sorted[Len(sorted)].text) <= YearRank(item.text)
         THEN Append(sorted, item)
         ELSE Append(InsertYear(item, SubSeq(sorted, 1, Len(sorted) - 1)),
                     sorted[Len(sorted)])

RECURSIVE SortYears(_)
\* years.sort()
SortYears(years) ==
    IF years = <<>> THEN <<>>
    ELSE InsertYear(years[Len(years)], SortYears(SubSeq(years, 1, Len(years) - 1)))

\* selection_request['date'].replace('/', '_'), for the dates of the model
ReplaceSlash(text) ==
    IF text = "2018-01-01/2018-01-31" THEN "2018-01-01_2018-01-31" ELSE text

RECURSIVE Join(_)
\* '_'.join(items)
Join(items) ==
    IF items = <<>> THEN ""
    ELSE IF Len(items) = 1 THEN items[1].text
    ELSE items[1].text \o "_" \o Join(Tail(items))

\* the selection request after make_filename: a list of more than one year
\* is sorted in place
AfterMakeFilename(selection_request) ==
    IF /\ "year" \in DOMAIN selection_request
       /\ selection_request["year"].kind = "list"
       /\ Len(selection_request["year"].items) > 1
    THEN [selection_request EXCEPT !["year"] = List(SortYears(@.items))]
    ELSE selection_request

\* <<what make_filename raised, the file name>>
make_filename(dataset, selection_request) ==
    LET joined == Join(selection_request["variable"].items)
        Name(date_str) == dataset \o "_" \o joined \o "_" \o date_str \o ".nc"
    IN  IF "year" \in DOMAIN selection_request
        THEN LET years == selection_request["year"]
                 sorted == SortYears(years.items)
             IN  IF years.kind = "str"
                 THEN IF Len(years.text) > 1
                      THEN <<"AttributeError", "">>
                      ELSE <<"none", Name(years.text)>>
                 ELSE IF Len(years.items) > 1
                      THEN <<"none", Name(sorted[1].text \o "_" \o sorted[Len(sorted)].text)>>
                      ELSE IF Len(years.items) = 1
                           THEN <<"none", Name(years.items[1].text)>>
                           ELSE <<"IndexError", "">>
        ELSE IF "date" \in DOMAIN selection_request
             THEN <<"none", Name(ReplaceSlash(selection_request["date"].text))>>
             ELSE <<"none", Name("")>>

\* the record of an _export call on the raw folder raw: the file it
\* returns, whether the file existed, whether retrieve was called, and the
\* raw folder after the call
ExportRecord(raw, dataset, selection_request) ==
    LET made == make_filename(dataset, selection_request)
        output_file == made[2]
        base == [dataset |-> dataset, selection_request |-> selection_request]
    IN  IF made[1] # "none"
        THEN base @@ [raised |-> made[1], output_file |-> "", existed |-> FALSE,
                      retrieved |-> FALSE, raw |-> raw]
        ELSE base @@ [raised |-> "none", output_file |-> output_file,
                      existed |-> output_file \in DOMAIN raw,
                      retrieved |-> output_file \notin DOMAIN raw,
                      raw |-> IF output_file \in DOMAIN raw THEN raw
                              ELSE [f \in (DOMAIN raw) \cup {output_file} |->
                                       IF f = output_file
                                       THEN [dataset |-> dataset,
                                             selection_request |->
                                                 AfterMakeFilename(selection_request)]
                                       ELSE raw[f]]]

_export(dataset, selection_request) ==
    /\ Len(cdsLog) < MaxExports
    /\ LET rec == ExportRecord(raw_folder, dataset, selection_request)
       IN  /\ raw_folder' = rec.raw
           /\ cdsLog' = Append(cdsLog, rec)
    /\ UNCHANGED <<chopVars, regridVars, rs, scriptVars, era5, modisVars>>

\* the datasets and the requests of the _export calls: one variable, one
\* or two years in either order or a date range, one of two months
CdsDatasets ==
    {"reanalysis-era5-single-levels", "reanalysis-era5-single-levels-monthly-means"}

CdsRequests ==
    {[variable |-> List(<<Str("precip")>>), year |-> List(years), month |-> List(<<month>>)] :
        years \in {<<Str("2018")>>, <<Str("2017"), Str("2018")>>,
                   <<Str("2018"), Str("2017")>>},
        month \in {Str("01"), Str("02")}}
    \cup
    {[variable |-> List(<<Str("precip")>>), date |-> Plain("2018-01-01/2018-01-31"),
      area |-> area] : area \in {kenya_area, Plain("ethiopia_area")}}

CdsInit ==
    /\ ExportersIdle
    /\ ScriptsIdle
    /\ rs = <<>>
    /\ interim = {} /\ built = {} /\ rg = <<>> /\ nCalls = 0
    /\ tifs = <<>> /\ region = <<>> /\ chopLog = <<>>

CdsNext ==
    /\ Len(cdsLog) < MaxExports
    /\ \E dataset \in CdsDatasets, selection_request \in CdsRequests :
           _export(dataset, selection_request)

CdsSpec == CdsInit /\ [][CdsNext]_vars

\* a variant of the override that keeps a default where there is one
Override_keep_default(processed_selection_request, key, val) ==
    IF key \in DOMAIN processed_selection_request
    THEN processed_selection_request
    ELSE processed_selection_request @@ [k \in {key} |-> val]

\* processed_selection_request[key] = val
Override(processed_selection_request, key, val) ==
    [k \in (DOMAIN processed_selection_request) \cup {key} |->
        IF k = key THEN val ELSE processed_selection_request[k]]

\* all([isinstance(val, str) for val in val]): the items of a list, or the
\* characters of a string
AllStrings(val) ==
    IF val.kind = "str" THEN TRUE
    ELSE \A i \in 1..Len(val.items) : val.items[i].type = "str"

\* the order the keys of the caller's dictionary are visited in
KeyOrder == <<"year", "area", "grid">>

RECURSIVE OverrideLoop(_, _, _)
\* the loop over selection_request.items(), from the i-th key on:
\* <<what was raised, processed_selection_request>>
OverrideLoop(processed_selection_request, selection_request, i) ==
    IF i > Len(KeyOrder) THEN <<"none", processed_selection_request>>
    ELSE IF KeyOrder[i] \notin DOMAIN selection_request
         THEN OverrideLoop(processed_selection_request, selection_request, i + 1)
         ELSE IF ~AllStrings(selection_request[KeyOrder[i]])
              THEN <<"AssertionError", processed_selection_request>>
              ELSE OverrideLoop(Override(processed_selection_request, KeyOrder[i],
                                         selection_request[KeyOrder[i]]),
                                selection_request, i + 1)

\* the record of an export call on the raw folder raw; dataset and
\* selection_request are <<>> for None or <<the value>>; handed is
\* <<the record of the _export call>>, or <<>> if _export was not called
Era5Record(raw, variable, dataset, granularity, selection_request, dummy_run) ==
    LET defaults ==
            [product_type |-> Plain("reanalysis"), format |-> Plain("netcdf"),
             variable |-> List(<<Str(variable)>>)]
            @@ get_era5_times(granularity)
            @@ [area |-> kenya_area]
        name == IF dataset # <<>> THEN dataset[1]
                ELSE IF granularity = "monthly"
                     THEN "reanalysis-era5-" \o get_datastore(variable) \o "-monthly-means"
                     ELSE "reanalysis-era5-" \o get_datastore(variable)
        looped == IF selection_request = <<>> THEN <<"none", defaults>>
                  ELSE OverrideLoop(defaults, selection_request[1], 1)
        base == [variable |-> variable, dataset |-> dataset, granularity |-> granularity,
                 selection_request |-> selection_request, dummy_run |-> dummy_run]
    IN  IF looped[1] # "none"
        THEN base @@ [raised |-> looped[1], handed |-> <<>>, raw |-> raw]
        ELSE IF dummy_run
             THEN base @@ [raised |-> "none", handed |-> <<>>, raw |-> raw]
             ELSE LET rec == ExportRecord(raw, name, looped[2])
                  IN  base @@ [raised |-> rec.raised, handed |-> <<rec>>, raw |-> rec.raw]

export(variable, dataset, granularity, selection_request, dummy_run) ==
    /\ era5 = <<>>
    /\ LET rec == Era5Record(raw_folder, variable, dataset, granularity,
                             selection_request, dummy_run)
       IN  /\ era5' = <<rec>>
           /\ raw_folder' = rec.raw
           /\ cdsLog' = cdsLog \o rec.handed
    /\ UNCHANGED <<chopVars, regridVars, rs, scriptVars, modisVars>>

\* the values a caller passes under a key: a list of strings (years out of
\* order), a list with an integer in it, a string
CallerValues ==
    {List(<<Str("2018"), Str("2017")>>), List(<<Str("2018"), IntEl("2019")>>),
     Plain("2018")}

\* the caller's dictionaries: each key of KeyOrder absent or with a value
CallerRequests ==
    UNION {[keys -> CallerValues] : keys \in SUBSET {"year", "area", "grid"}}

Era5Init ==
    /\ ExportersIdle
    /\ ScriptsIdle
    /\ rs = <<>>
    /\ interim = {} /\ built = {} /\ rg = <<>> /\ nCalls = 0
    /\ tifs = <<>> /\ region = <<>> /\ chopLog = <<>>

Era5Next ==
    /\ era5 = <<>>
    /\ \E variable \in {"total_precipitation", "temperature"},
          dataset \in {<<>>, <<"reanalysis-era5-land">>},
          granularity \in {"hourly", "monthly"},
          selection_request \in {<<>>} \cup {<<d>> : d \in CallerRequests},
          dummy_run \in BOOLEAN :
           export(variable, dataset, granularity, selection_request, dummy_run)

Era5Spec == Era5Init /\ [][Era5Next]_vars

----------------------------------------------------------------------------
(* CDS exports: the claims.                                                *)

\* C17: ERA5Exporter.export builds the request from the defaults
\* (product_type, format, variable, the time fields of get_era5_times, the
\* Kenya area) and overrides them with the caller's selection_request: the
\* request handed to _export carries the caller's value under every key
\* the caller passes and the default under every other key; a caller value
\* with a non-string element is rejected before any retrieve call.
C17_CallerOverridesDefaults ==
    \A rec \in Range(era5) :
        LET passed == IF rec.selection_request = <<>> THEN <<>>
                      ELSE rec.selection_request[1]
            times == get_era5_times(rec.granularity)
            NonString(val) ==
                val.kind = "list" /\ \E i \in 1..Len(val.items) : val.items[i].type # "str"
        IN  IF \E key \in DOMAIN passed : NonString(passed[key])
            THEN /\ rec.raised = "AssertionError"
                 /\ rec.handed = <<>>
                 /\ cdsLog = <<>> /\ raw_folder = <<>>
            ELSE rec.dummy_run \/
                 /\ Len(rec.handed) = 1
                 /\ LET request == rec.handed[1].selection_request
                    IN  /\ DOMAIN request =
                               {"product_type", "format", "variable", "area"}
                                   \cup (DOMAIN times) \cup (DOMAIN passed)
                        /\ \A key \in DOMAIN passed : request[key] = passed[key]
                        /\ \A key \in (DOMAIN request) \ (DOMAIN passed) :
                               request[key] =
                                   CASE key = "product_type" -> Plain("reanalysis")
                                     [] key = "format" -> Plain("netcdf")
                                     [] key = "variable" -> List(<<Str(rec.variable)>>)
                                     [] key = "area" -> kenya_area
                                     [] OTHER -> times[key]

\* a call that overrides the default area and adds a key, keeps the default
\* years and retrieves the file
C17_Witness ==
    \E rec \in Range(era5) :
        /\ rec.selection_request # <<>>
        /\ DOMAIN rec.selection_request[1] = {"area", "grid"}
        /\ rec.granularity = "hourly"
        /\ Len(rec.handed) = 1
        /\ rec.handed[1].retrieved
        /\ rec.handed[1].selection_request["area"] = Plain("2018")
        /\ rec.handed[1].selection_request["area"] # kenya_area
        /\ Len(rec.handed[1].selection_request["year"].items) = 41
        /\ "day" \in DOMAIN rec.handed[1].selection_request

\* a call with an integer among the caller's years: rejected, nothing
\* retrieved
C17_WitnessRejected ==
    \E rec \in Range(era5) :
        /\ rec.raised = "AssertionError" /\ ~rec.dummy_run
        /\ raw_folder = <<>>

\* what a call asks for: its dataset and its request, the years in order
Asked(rec) ==
    [dataset |-> rec.dataset,
     selection_request |-> AfterMakeFilename(rec.selection_request)]

\* C19 (the claim as stated): a call of _export that asks for something
\* every earlier call on the raw folder did not ask for calls retrieve and
\* returns a file that holds the data of its own request.
C19_NoFileOfAnotherRequest ==
    \A i \in 1..Len(cdsLog) :
        (\A j \in 1..(i - 1) : Asked(cdsLog[j]) # Asked(cdsLog[i])) =>
            /\ cdsLog[i].retrieved
            /\ cdsLog[i].raw[cdsLog[i].output_file] = Asked(cdsLog[i])

\* what _export does guarantee: retrieve is called exactly when no file of
\* the request's name is in the raw folder, and the file returned holds
\* the data of the first request made under that name
C19_FileOfFirstRequestOfName ==
    \A i \in 1..Len(cdsLog) :
        LET rec == cdsLog[i]
            same == {j \in 1..i : cdsLog[j].output_file = rec.output_file}
            first == CHOOSE j \in same : \A k \in same : j <= k
        IN  /\ rec.retrieved <=> (first = i)
            /\ rec.raw[rec.output_file] = Asked(cdsLog[first])

----------------------------------------------------------------------------
(* src/exporters/mantle_modis.py: MantleModisExporter.export               *)
(*                                                                         *)
(* A key of the bucket is [date, variable, level], date being the number   *)
(* YYYYMMDD.  A path under the output folder is [folder, date, subset,     *)
(* ext]: folder is TifsDir for output_folder/tifs and the year y for       *)
(* output_folder/{variable}_{level}/y; the file's stem is the date with    *)
(* the variable and, after a crop, the region (subset, "" without crop).   *)
(* The export is followed step by step: one step per key of                *)
(* _export_list_of_files, one for the move of the tifs, one per            *)
(* tif_to_nc pair and one for the removal of the tifs.                     *)

TifsDir == 0

Key(date, variable, level) == [date |-> date, variable |-> variable, level |-> level]

YearOf(date) == date \div 10000

Path(folder, date, subset, ext) ==
    [folder |-> folder, date |-> date, subset |-> subset, ext |-> ext]

\* the order of list.sort() on paths: by folder ("tifs" before "vci_OF"),
\* then by file name
PathLess(a, b) ==
    \/ a.folder < b.folder
    \/ a.folder = b.folder /\ a.date < b.date
    \/ a.folder = b.folder /\ a.date = b.date /\ a.subset = "" /\ b.subset # ""
    \/ a.folder = b.folder /\ a.date = b.date /\ a.subset = b.subset
         /\ a.ext = "nc" /\ b.ext = "tif"

RECURSIVE SortPaths(_)
\* the paths of the set S as a sorted list
SortPaths(S) ==
    IF S = {} THEN <<>>
    ELSE LET first == CHOOSE a \in S : \A b \in S \ {a} : PathLess(a, b)
         IN  <<first>> \o SortPaths(S \ {first})

\* the file at path written with content, and the files of S unlinked
Put(d, path, content) ==
    [q \in (DOMAIN d) \cup {path} |-> IF q = path THEN content ELSE d[q]]

Unlink(d, S) == [q \in (DOMAIN d) \ S |-> d[q]]

get_tif_filepaths(d) == SortPaths({q \in DOMAIN d : q.ext = "tif"})

\* a variant of the glob that finds no file
MovedTifs_none(d) == {}

\* the tifs the glob of the tifs folder finds
MovedTifs(d) == {q \in DOMAIN d : q.folder = TifsDir /\ q.ext = "tif"}

\* the disk after delete_tifs_already_run
delete_tifs_already_run(d) ==
    LET created_nc_files == {q \in DOMAIN d : q.ext = "nc"}
        converted_tifs ==
            {t \in MovedTifs(d) :
                \E nc \in created_nc_files : nc.date = t.date /\ nc.subset = t.subset}
    IN  Unlink(d, converted_tifs)

\* a variant of the check that finds no target
target_exists_never(d, target_output) == FALSE

\* target_output.exists()
target_exists(d, target_output) == target_output \in DOMAIN d

\* a variant of the handler that lets a missing key stop the export
ClientErrorRaised_always(code) == TRUE

\* whether the handler of the client error raises it again
ClientErrorRaised(code) == code # "404"

\* one pass of the loop of _export_list_of_files on the disk d, s3 being
\* what download_file does ("ok" or the code of its client error) and lib
\* what chop_roi does: the step's record and the disk after it
ExportKeyRecord(d, target_key, region_str, s3, lib) ==
    LET target_output ==
            Path(YearOf(target_key.date), target_key.date, "", "tif")
        existed == target_exists(d, target_output)
        called == ~existed
        stopped == called /\ s3 # "ok" /\ ClientErrorRaised(s3)
        d1 == IF called /\ s3 = "ok" THEN Put(d, target_output, "downloaded") ELSE d
        chop == ~stopped /\ target_output \in DOMAIN d1 /\ region_str # ""
        subset_output == [target_output EXCEPT !.subset = region_str]
        d2 == IF ~chop THEN d1
              ELSE IF lib = "written"
                   THEN Unlink(Put(d1, subset_output, "chopped"), {target_output})
                   ELSE IF lib = "io_raised"
                        THEN Put(d1, subset_output, "blank")
                        ELSE d1
    IN  [type |-> "key", year |-> YearOf(target_key.date), date |-> target_key.date,
         existed |-> existed, called |-> called,
         outcome |-> IF called THEN s3 ELSE "skipped",
         before |-> IF target_output \in DOMAIN d THEN d[target_output] ELSE "absent",
         after |-> IF target_output \in DOMAIN d1 THEN d1[target_output] ELSE "absent",
         chop |-> IF chop THEN lib ELSE "none",
         raised |-> IF stopped THEN "ClientError"
                    ELSE IF chop /\ lib # "written" THEN "RasterioIOError"
                    ELSE "none",
         disk |-> d2]

\* the last field of a step's record is the disk: the log keeps the rest
Logged(rec) == [f \in (DOMAIN rec) \ {"disk"} |-> rec[f]]

RECURSIVE SortedYears(_)
\* np.unique(subset_years)
SortedYears(S) ==
    IF S = {} THEN <<>>
    ELSE LET least == CHOOSE y \in S : \A z \in S : y <= z
         IN  <<least>> \o SortedYears(S \ {least})

\* export up to its loop over the years
export_begin(variable, level, remove_tif, region_str, all_files) ==
    /\ modis.phase = "idle"
    /\ LET valid == /\ variable \in {"sm", "ndvi", "vci", "uup", "ulow"}
                    /\ level \in {"O0", "O1", "O2", "O3", "O4", "OF"}
           subset_files ==
               SelectSeq(all_files, LAMBDA f : f.variable = variable /\ f.level = level)
           unique_years ==
               SortedYears({YearOf(subset_files[i].date) : i \in 1..Len(subset_files)})
       IN  modis' = [phase |-> IF ~valid THEN "raised"
                               ELSE IF unique_years = <<>> THEN "done" ELSE "download",
                     raised |-> IF valid THEN "none" ELSE "AssertionError",
                     variable |-> variable, remove_tif |-> remove_tif,
                     region_str |-> region_str,
                     subset_files |-> IF valid THEN subset_files ELSE <<>>,
                     unique_years |-> IF valid THEN unique_years ELSE <<>>,
                     year_ix |-> 1, key_ix |-> 1,
                     tif_files |-> <<>>, moved_tif_files |-> <<>>, nc_files |-> <<>>,
                     pair_ix |-> 1]
    /\ UNCHANGED <<disk, exLog, deleted>>
    /\ UNCHANGED <<chopVars, regridVars, rs, scriptVars, cdsVars>>

\* the keys of the year the export is at, in the order of the listing
YearSubset ==
    SelectSeq(modis.subset_files,
              LAMBDA f : YearOf(f.date) = modis.unique_years[modis.year_ix])

\* one pass of the loop of _export_list_of_files; after the last key of
\* the year, get_tif_filepaths
_export_list_of_files(s3, lib) ==
    /\ modis.phase = "download"
    /\ LET rec == ExportKeyRecord(disk, YearSubset[modis.key_ix], modis.region_str,
                                  s3, lib)
       IN  /\ disk' = rec.disk
           /\ exLog' = Append(exLog, Logged(rec))
           /\ modis' =
                IF rec.raised # "none"
                THEN [modis EXCEPT !.phase = "raised", !.raised = rec.raised]
                ELSE IF modis.key_ix < Len(YearSubset)
                     THEN [modis EXCEPT !.key_ix = @ + 1]
                     ELSE [modis EXCEPT !.phase = "move",
                                        !.tif_files = get_tif_filepaths(rec.disk)]
    /\ UNCHANGED deleted
    /\ UNCHANGED <<chopVars, regridVars, rs, scriptVars, cdsVars>>

\* preprocess_tif_to_nc, steps 1 and 2 up to the loop: the tifs are moved
\* into the tifs folder, the two lists are made and sorted
preprocess_tif_to_nc_move ==
    /\ modis.phase = "move"
    /\ LET tif_files == modis.tif_files
           Moved(f) == [f EXCEPT !.folder = TifsDir]
           RECURSIVE MoveAll(_, _)
           MoveAll(d, i) ==
               IF i > Len(tif_files) THEN d
               ELSE MoveAll(Put(Unlink(d, {tif_files[i]}), Moved(tif_files[i]),
                                d[tif_files[i]]), i + 1)
           d1 == MoveAll(disk, 1)
           moved_tif_files == SortPaths(MovedTifs(d1))
           nc_files == SortPaths({[tif_files[i] EXCEPT !.ext = "nc"] :
                                     i \in 1..Len(tif_files)})
       IN  /\ disk' = d1
           /\ modis' = [modis EXCEPT !.phase = IF moved_tif_files = <<>> \/ nc_files = <<>>
                                               THEN "remove" ELSE "convert",
                                     !.moved_tif_files = moved_tif_files,
                                     !.nc_files = nc_files,
                                     !.pair_ix = 1]
           /\ exLog' = Append(exLog, [type |-> "move", year |-> modis.unique_years[modis.year_ix]])
    /\ UNCHANGED deleted
    /\ UNCHANGED <<chopVars, regridVars, rs, scriptVars, cdsVars>>

\* one pass of the loop over zip(moved_tif_files, nc_files): tif_to_nc if
\* the nc file is not there; lib is what to_netcdf does: "ok", or it raises
\* RuntimeError and leaves no file ("no_file") or a part of one ("partial")
tif_to_nc(lib) ==
    /\ modis.phase = "convert"
    /\ LET tif_file == modis.moved_tif_files[modis.pair_ix]
           nc_file == modis.nc_files[modis.pair_ix]
           skipped == nc_file \in DOMAIN disk
           missing == ~skipped /\ tif_file \notin DOMAIN disk
           d1 == IF skipped \/ missing THEN disk
                 ELSE IF lib = "ok" THEN Put(disk, nc_file, "converted")
                 ELSE IF lib = "partial"
                      THEN delete_tifs_already_run(Put(disk, nc_file, "partial"))
                      ELSE delete_tifs_already_run(disk)
           last == modis.pair_ix = Min(Len(modis.moved_tif_files), Len(modis.nc_files))
       IN  /\ disk' = d1
           /\ deleted' = deleted \cup ((DOMAIN disk) \ (DOMAIN d1))
           /\ exLog' = Append(exLog,
                 [type |-> "convert", year |-> modis.unique_years[modis.year_ix],
                  tif_file |-> tif_file, nc_file |-> nc_file,
                  outcome |-> IF skipped THEN "already" ELSE IF missing THEN "missing" ELSE lib])
           /\ modis' = IF missing
                       THEN [modis EXCEPT !.phase = "raised", !.raised = "RasterioIOError"]
                       ELSE IF last THEN [modis EXCEPT !.phase = "remove"]
                       ELSE [modis EXCEPT !.pair_ix = @ + 1]
    /\ UNCHANGED <<chopVars, regridVars, rs, scriptVars, cdsVars>>

\* preprocess_tif_to_nc, step 3, and the step of export's loop to the next
\* year: the moved tifs are unlinked in order, and unlinking one that is
\* gone raises
preprocess_tif_to_nc_remove ==
    /\ modis.phase = "remove"
    /\ LET moved_tif_files == modis.moved_tif_files
           gone == {i \in 1..Len(moved_tif_files) : moved_tif_files[i] \notin DOMAIN disk}
           stop == IF gone = {} THEN Len(moved_tif_files) + 1
                   ELSE CHOOSE i \in gone : \A j \in gone : i <= j
           unlinked == IF modis.remove_tif
                       THEN {moved_tif_files[i] : i \in 1..(stop - 1)}
                       ELSE {}
           raised == modis.remove_tif /\ gone # {}
       IN  /\ disk' = Unlink(disk, unlinked)
           /\ deleted' = deleted \cup unlinked
           /\ exLog' = Append(exLog, [type |-> "remove", year |-> modis.unique_years[modis.year_ix]])
           /\ modis' = IF raised
                       THEN [modis EXCEPT !.phase = "raised", !.raised = "FileNotFoundError"]
                       ELSE IF modis.year_ix < Len(modis.unique_years)
                            THEN [modis EXCEPT !.phase = "download", !.year_ix = @ + 1,
                                               !.key_ix = 1]
                            ELSE [modis EXCEPT !.phase = "done"]
    /\ UNCHANGED <<chopVars, regridVars, rs, scriptVars, cdsVars>>

\* the listings of the bucket: two years in either order, keys of another
\* variable among them
Listings ==
    {<<Key(20010101, "vci", "OF"), Key(20010101, "ndvi", "OF"),
       Key(20010117, "vci", "OF"), Key(20020101, "vci", "OF")>>,
     <<Key(20020101, "vci", "OF"), Key(20010101, "vci", "OF")>>,
     <<Key(20010101, "ndvi", "OF")>>}

\* the files an earlier run can have left: a downloaded tile, its netCDF
\* file, and in the tifs folder a tile of a year before and a tile of a
\* year after the years of the listings
Leftovers ==
    {Path(2001, 20010101, "", "tif"), Path(2001, 20010101, "", "nc"),
     Path(TifsDir, 20000101, "", "tif"), Path(TifsDir, 20030101, "", "tif")}

ModisInit ==
    /\ disk \in {[q \in S |-> "earlier"] : S \in SUBSET Leftovers}
    /\ modis = [phase |-> "idle"] /\ exLog = <<>> /\ deleted = {}
    /\ raw_folder = <<>> /\ cdsLog = <<>> /\ era5 = <<>>
    /\ ScriptsIdle
    /\ rs = <<>>
    /\ interim = {} /\ built = {} /\ rg = <<>> /\ nCalls = 0
    /\ tifs = <<>> /\ region = <<>> /\ chopLog = <<>>

ModisNext ==
    \/ \E variable \in {"vci", "precip"}, remove_tif \in BOOLEAN,
          region_str \in {"", "kenya"}, all_files \in Listings :
           export_begin(variable, "OF", remove_tif, region_str, all_files)
    \/ \E s3 \in {"ok", "404", "403"}, lib \in {"written", "open_raised", "io_raised"} :
           _export_list_of_files(s3, lib)
    \/ preprocess_tif_to_nc_move
    \/ \E lib \in {"ok", "no_file", "partial"} : tif_to_nc(lib)
    \/ preprocess_tif_to_nc_remove

ModisSpec == ModisInit /\ [][ModisNext]_vars

----------------------------------------------------------------------------
(* MODIS export: the claims.                                               *)

\* the steps of the log that are passes of the download loop
KeySteps == {i \in 1..Len(exLog) : exLog[i].type = "key"}

\* the place of a step in the processing of one year
StepRank(type) ==
    CASE type = "key" -> 1 [] type = "move" -> 2 [] type = "convert" -> 3
      [] type = "remove" -> 4

TifsOnDisk == {q \in DOMAIN disk : q.ext = "tif"}

\* C14: with remove_tif=True, export processes the years one at a time in
\* ascending order: the downloads and crops of a year come before its
\* conversions, its conversions before the removal of its tifs, and that
\* removal before any step of a later year; while a year is downloaded no
\* .tif file of a year processed before it is under the output folder (when
\* the download of a later year begins there is no .tif file at all).
C14_YearByYear ==
    (modis.phase # "idle" /\ modis.remove_tif) =>
        /\ \A i, j \in 1..Len(exLog) :
               i < j =>
                   /\ exLog[i].year <= exLog[j].year
                   /\ exLog[i].year = exLog[j].year =>
                          StepRank(exLog[i].type) <= StepRank(exLog[j].type)
                   /\ exLog[i].year < exLog[j].year =>
                          \E k \in i..(j - 1) :
                              exLog[k].type = "remove" /\ exLog[k].year = exLog[i].year
        /\ \A k \in 1..(Len(modis.unique_years) - 1) :
               modis.unique_years[k] < modis.unique_years[k + 1]
        /\ modis.phase = "download" =>
               /\ \A q \in TifsOnDisk :
                      \A k \in 1..(modis.year_ix - 1) :
                          YearOf(q.date) # modis.unique_years[k]
               /\ (modis.year_ix > 1 /\ modis.key_ix = 1) => TifsOnDisk = {}

\* the download of the second year begins, after two tiles of the first
\* year were downloaded, converted and removed, the years listed in
\* descending order or not
C14_Witness ==
    /\ modis.phase = "download" /\ modis.remove_tif
    /\ modis.year_ix = 2 /\ modis.key_ix = 1
    /\ \E i, j \in KeySteps :
           i # j /\ exLog[i].outcome = "ok" /\ exLog[j].outcome = "ok"
    /\ \E i \in 1..Len(exLog) : exLog[i].type = "convert" /\ exLog[i].outcome = "ok"
    /\ Cardinality(deleted) >= 2

\* C15: _export_list_of_files calls download_file for a key at most once,
\* and only when the key's target file is not on disk at that moment; a
\* target that is on disk is the same file after the download step.
C15_NoDownloadOverExistingTarget ==
    /\ \A i \in KeySteps :
           /\ exLog[i].called => exLog[i].before = "absent"
           /\ exLog[i].before # "absent" =>
                  ~exLog[i].called /\ exLog[i].after = exLog[i].before
    /\ \A i, j \in KeySteps :
           (i # j /\ exLog[i].date = exLog[j].date) =>
               ~(exLog[i].called /\ exLog[j].called)

\* a key whose target an earlier run left on disk is skipped and cropped,
\* and a later key is downloaded
C15_Witness ==
    \E i, j \in KeySteps :
        /\ i < j
        /\ exLog[i].before = "earlier" /\ ~exLog[i].called
        /\ exLog[i].chop = "written"
        /\ exLog[j].called /\ exLog[j].outcome = "ok"

\* the keys of the year of step i that come after the key of step i in
\* the listing
LaterKeys(i) ==
    LET year_subset ==
            SelectSeq(modis.subset_files, LAMBDA f : YearOf(f.date) = exLog[i].year)
        at == CHOOSE n \in 1..Len(year_subset) : year_subset[n].date = exLog[i].date
    IN  {year_subset[n].date : n \in (at + 1)..Len(year_subset)}

\* C16: a download that fails with a client error of code 404 leaves the
\* key without local file and without crop and does not stop the export:
\* the next step is the pass for the next key of the list (or, after the
\* last key, the move of the tifs); a client error of another code is
\* raised again and ends the export, the later keys not downloaded.
C16_MissingKeySkippedOtherErrorsRaised ==
    \A i \in KeySteps :
        /\ exLog[i].outcome = "404" =>
               /\ exLog[i].after = "absent" /\ exLog[i].chop = "none"
               /\ exLog[i].raised = "none"
               /\ i = Len(exLog) => modis.phase \in {"download", "move"}
               /\ (i = Len(exLog) /\ LaterKeys(i) # {}) => modis.phase = "download"
               /\ i < Len(exLog) =>
                      IF LaterKeys(i) = {} THEN exLog[i + 1].type = "move"
                      ELSE /\ exLog[i + 1].type = "key"
                           /\ exLog[i + 1].date \in LaterKeys(i)
        /\ exLog[i].outcome \notin {"ok", "404", "skipped"} =>
               /\ exLog[i].raised = "ClientError"
               /\ i = Len(exLog) /\ modis.phase = "raised"
               /\ \A j \in KeySteps : exLog[j].date \notin LaterKeys(i)
               /\ \A q \in DOMAIN disk :
                      q.date \in LaterKeys(i) => disk[q] = "earlier"

\* the first key of a year is missing in the bucket, the next key of the
\* year is downloaded
C16_Witness ==
    \E i \in KeySteps :
        /\ exLog[i].outcome = "404"
        /\ i + 1 \in KeySteps
        /\ exLog[i + 1].year = exLog[i].year
        /\ exLog[i + 1].outcome = "ok"

\* the download of the first key of a year is refused, the export has
\* ended and the year's next key has no file
C16_WitnessRaised ==
    \E i \in KeySteps :
        /\ exLog[i].outcome = "403" /\ LaterKeys(i) # {}
        /\ modis.phase = "raised"

\* C20 (the claim as stated): in every state during and after
\* preprocess_tif_to_nc, every .tif file it has deleted has a .nc file of
\* the same stem on disk.
C20_NoTileLost ==
    \A t \in deleted :
        \E nc \in DOMAIN disk :
            nc.ext = "nc" /\ nc.date = t.date /\ nc.subset = t.subset

\* what holds of the deletions: delete_tifs_already_run deletes only tifs
\* whose netCDF file is on disk, so while the tifs are not yet removed
\* every deleted tif has one
C20_NoTileLostBeforeRemoval ==
    (~\E i \in 1..Len(exLog) : exLog[i].type = "remove") =>
        \A t \in deleted :
            \E nc \in DOMAIN disk :
                nc.ext = "nc" /\ nc.date = t.date /\ nc.subset = t.subset

\* the passes of the conversion loop that call tif_to_nc
ConvertCalls ==
    {i \in 1..Len(exLog) : exLog[i].type = "convert" /\ exLog[i].outcome # "already"}

\* C21 (the claim as stated): every (tif_file, nc_file) pair that
\* preprocess_tif_to_nc passes to tif_to_nc has the same stem, whatever
\* tifs are in the tifs folder when the call starts and whatever folders
\* the input tifs come from.
C21_PairsHaveSameStem ==
    \A i \in ConvertCalls :
        /\ exLog[i].tif_file.date = exLog[i].nc_file.date
        /\ exLog[i].tif_file.subset = exLog[i].nc_file.subset

====
